---- MODULE Spec2Model ----
(***************************************************************************)
(* Model of NetworkProcessor (src/process_demand.py): a capacitated        *)
(* substrate graph, a list of virtual-network demands, and the greedy      *)
(* batch pass that embeds the demands on the substrate.  The inputs are    *)
(* those of main() (src/main.py) plus small topologies and demands.        *)
(***************************************************************************)
EXTENDS Integers, Sequences, FiniteSets, TLC

(***************************************************************************)
(* Bounds of the model.                                                    *)
(***************************************************************************)
\* most demands held in the demand list at once
MaxDemands == 2
\* most entries of accepted_demands and rejected_demands together once a
\* further pass has run
MaxRecorded == 4
\* most allocations committed by direct calls of allocate_demand
MaxAllocated == 3

(***************************************************************************)
(* Values.  A numpy matrix is the sequence of its rows; node labels are    *)
(* 1..N and the code's "label - 1" turns a label into a 0-based index, so  *)
(* label u addresses row u of the sequence.  Python's None (and an         *)
(* attribute that was never assigned) is the empty tuple; no input matrix  *)
(* is empty.                                                               *)
(***************************************************************************)
None == << >>

\* the substrate of main()
MainSubstrate ==
  << << 0, 12,  0, 0, 0 >>,
     << 0,  0, 10, 7, 0 >>,
     << 0,  0,  0, 0, 8 >>,
     << 0,  0,  0, 0, 6 >>,
     << 0,  0,  0, 0, 0 >> >>

\* a 3-node ring with a chord
SmallSubstrate ==
  << << 0, 3, 1 >>,
     << 0, 0, 1 >>,
     << 1, 0, 0 >> >>

\* a matrix with a negative entry
NegativeSubstrate ==
  << << 0, -1 >>,
     << 2,  0 >> >>

\* a matrix that is not square (2 rows, 3 columns)
NonSquareSubstrate ==
  << << 0, 2, 1 >>,
     << 1, 0, 1 >> >>

Substrates ==
  { MainSubstrate, SmallSubstrate, NegativeSubstrate, NonSquareSubstrate }

\* the record add_demand builds
Demand(id, path, bandwidth) ==
  [id |-> id, path |-> path, bandwidth |-> bandwidth]

\* the two demands of main()
DemandA == Demand(1, << 1, 2, 3, 4 >>, << 8, 8, 5 >>)
DemandB == Demand(2, << 1, 2, 3, 4 >>, << 4, 6, 2 >>)

\* the demands the model adds: those of main(), small well-formed ones (two
\* of them share id 3, two of them share the total 2), one whose bandwidth
\* list is too short and one with a negative requirement
DemandInputs ==
  { DemandA, DemandB,
    Demand(3, << 1, 2 >>, << 2 >>),
    Demand(5, << 1, 2, 3 >>, << 1, 1 >>),
    Demand(3, << 1, 2, 3 >>, << 2, 1 >>),
    Demand(6, << 1, 2 >>, << >>),
    Demand(7, << 1, 2 >>, << -1 >>) }

VARIABLES
  substrate_network,   \* self.substrate_network: the residual capacities
  original_substrate,  \* self.original_substrate: the baseline (None: never assigned)
  demands,             \* self.demands
  accepted_demands,    \* self.accepted_demands
  rejected_demands,    \* self.rejected_demands
  allocations,         \* self.allocations: demand id -> mapping
  pc,                  \* "idle", or "loop" inside process_all_demands
  idx,                 \* position of the for loop of process_all_demands
  ret,                 \* value returned by the last call (None while one runs)
  err,                 \* exception raised by the last call ("" for none)
  last,                \* the call that ended last
  added,               \* the demands in the order add_demand received them
  clean,               \* the running or last pass started with nothing recorded
  snap                 \* what the pass that reset() followed had produced

vars ==
  << substrate_network, original_substrate, demands, accepted_demands,
     rejected_demands, allocations, pc, idx, ret, err, last, added, clean,
     snap >>

(***************************************************************************)
(* Helpers.                                                                *)
(***************************************************************************)
RECURSIVE SumSeq(_)
\* Python's sum() over a list
SumSeq(s) == IF s = << >> THEN 0 ELSE Head(s) + SumSeq(Tail(s))

\* the sort key of process_all_demands
TotalBandwidth(d) == SumSeq(d.bandwidth)

\* substrate_network[u - 1, v - 1] for labels u, v
Cell(net, u, v) == net[u][v]

\* substrate_network.shape[0]
NumNodes(net) == Len(net)

\* a ratio is << numerator, denominator >>; 0.0 is << 0, 1 >>
RatioEq(r, s) == r[1] * s[2] = s[1] * r[2]

EmptyAllocations == [i \in {} |-> << >>]

(***************************************************************************)
(* Observers.  last, added, clean and snap record what happened; no        *)
(* operation reads them.  snap is taken when reset() directly follows a    *)
(* pass that started with nothing recorded and ran to its end, and it is   *)
(* kept only while the calls that follow repeat that pass: the same        *)
(* matrix, the same demands in the same order (or none), one more pass.    *)
(***************************************************************************)
NoSnap ==
  [taken |-> FALSE, original |-> None, added |-> << >>, demands |-> << >>,
   allocations |-> EmptyAllocations, ret |-> None]

\* process_all_demands returned normally and nothing was called since
PassComplete == last = "process" /\ pc = "idle" /\ err = ""

IsPrefix(s, t) == Len(s) <= Len(t) /\ SubSeq(t, 1, Len(s)) = s

SnapAtReset ==
  IF PassComplete /\ clean
    THEN [taken |-> TRUE, original |-> original_substrate, added |-> added,
          demands |-> demands, allocations |-> allocations, ret |-> ret]
    ELSE snap

SnapAtSet(m) == IF snap.taken /\ m = snap.original THEN snap ELSE NoSnap

SnapAtAdd(d) ==
  IF snap.taken /\ IsPrefix(Append(added, d), snap.added) THEN snap ELSE NoSnap

SnapAtStart ==
  IF /\ snap.taken
     /\ last \in {"reset", "add", "set"}
     /\ accepted_demands = << >> /\ rejected_demands = << >>
     /\ added \in {snap.added, << >>}
    THEN snap ELSE NoSnap

Init ==
  /\ substrate_network = None
  /\ original_substrate = None
  /\ demands = << >>
  /\ accepted_demands = << >>
  /\ rejected_demands = << >>
  /\ allocations = EmptyAllocations
  /\ pc = "idle"
  /\ idx = 0
  /\ ret = None
  /\ err = ""
  /\ last = "init"
  /\ added = << >>
  /\ clean = TRUE
  /\ snap = NoSnap

\* set_substrate_network(adjacency_matrix)
SetSubstrateNetwork(m) ==
  /\ pc = "idle"
  /\ substrate_network' = m
  /\ original_substrate' = m
  /\ ret' = None
  /\ err' = ""
  /\ last' = "set"
  /\ snap' = SnapAtSet(m)
  /\ UNCHANGED << demands, accepted_demands, rejected_demands, allocations,
                  pc, idx, added, clean >>


\* add_demand(demand_id, demand_path, bandwidth_requirements)
AddDemand(d) ==
  /\ pc = "idle"
  /\ Len(demands) < MaxDemands
  /\ demands' = Append(demands, d)
  /\ added' = Append(added, d)
  /\ ret' = None
  /\ err' = ""
  /\ last' = "add"
  /\ snap' = SnapAtAdd(d)
  /\ UNCHANGED << substrate_network, original_substrate, accepted_demands,
                  rejected_demands, allocations, pc, idx, clean >>

\* set_substrate_network called on a processor that has no substrate yet
SetSubstrateNetworkOnce(m) ==
  /\ original_substrate = None
  /\ SetSubstrateNetwork(m)

\* a reset() that forgets to restore the residual capacities
ResetKeepsResidual == substrate_network

\* self.substrate_network = self.original_substrate.copy()
ResetSubstrate == original_substrate

\* a reset() that leaves the demand list alone
ResetKeepsDemands == demands

\* self.demands = []
ResetDemands == << >>

\* reset(): the four collections are emptied first; reading
\* self.original_substrate then raises AttributeError when
\* set_substrate_network never assigned it
Reset ==
  /\ pc = "idle"
  /\ demands' = ResetDemands
  /\ accepted_demands' = << >>
  /\ rejected_demands' = << >>
  /\ allocations' = EmptyAllocations
  /\ IF original_substrate = None
       THEN /\ err' = "AttributeError"
            /\ UNCHANGED substrate_network
       ELSE /\ err' = ""
            /\ substrate_network' = ResetSubstrate
  /\ last' = "reset"
  /\ snap' = SnapAtReset
  /\ added' = << >>
  /\ clean' = TRUE
  /\ ret' = None
  /\ UNCHANGED << original_substrate, pc, idx >>

(***************************************************************************)
(* find_all_possible_allocations                                           *)
(***************************************************************************)
\* range(1, substrate_nodes + 1)
Labels(n) == [i \in 1..n |-> i]

\* a pool from which the chosen element is not removed
WithoutNothing(s, i) == s

\* the sequence s without its i-th element
Without(s, i) == SubSeq(s, 1, i - 1) \o SubSeq(s, i + 1, Len(s))

RECURSIVE permutations(_, _)
RECURSIVE permutations_from(_, _, _)
\* permutations_from(pool, r, i): the r-permutations of pool whose first
\* element is pool[i] or a later one, in generation order
permutations_from(pool, r, i) ==
  IF i > Len(pool) THEN << >>
  ELSE LET rest == permutations(Without(pool, i), r - 1)
       IN  [j \in 1..Len(rest) |-> << pool[i] >> \o rest[j]]
             \o permutations_from(pool, r, i + 1)

\* itertools.permutations(pool, r): the r-length arrangements of pool, emitted
\* in lexicographic order of positions; none when r > len(pool)
permutations(pool, r) ==
  IF r = 0 THEN << << >> >>
  ELSE IF r > Len(pool) THEN << >>
  ELSE permutations_from(pool, r, 1)

RECURSIVE CheckMapping(_, _, _, _)
\* the inner loop over i in range(len(path) - 1), from position i on:
\* "valid", "invalid" (break at the first arc with too little bandwidth) or
\* "IndexError" (bandwidth[i] or the matrix cell does not exist)
CheckMapping(demand, net, mapping, i) ==
  IF i > Len(demand.path) - 1 THEN "valid"
  ELSE IF i > Len(demand.bandwidth) THEN "IndexError"
  ELSE IF mapping[i + 1] > Len(net[mapping[i]]) THEN "IndexError"
  ELSE IF Cell(net, mapping[i], mapping[i + 1]) < demand.bandwidth[i]
         THEN "invalid"
  ELSE CheckMapping(demand, net, mapping, i + 1)

\* permutations(range(1, n + 1), r) for every node count and path length of
\* the inputs, computed once
PermutationTable ==
  [n \in {NumNodes(m) : m \in Substrates},
   r \in {Len(d.path) : d \in DemandInputs} |-> permutations(Labels(n), r)]

\* all_mappings of find_all_possible_allocations
AllMappings(demand, net) ==
  PermutationTable[NumNodes(net), Len(demand.path)]

\* find_all_possible_allocations raises instead of returning
FindRaises(demand, net) ==
  LET all_mappings == AllMappings(demand, net)
  IN  \E j \in 1..Len(all_mappings) :
        CheckMapping(demand, net, all_mappings[j], 1) = "IndexError"

\* valid_mappings of find_all_possible_allocations (when it does not raise)
FindAllPossibleAllocations(demand, net) ==
  LET Valid(mapping) == CheckMapping(demand, net, mapping, 1) = "valid"
  IN  SelectSeq(AllMappings(demand, net), Valid)

(***************************************************************************)
(* allocate_demand                                                         *)
(***************************************************************************)
\* a check that looks at the first arc only
EnoughBandwidthFirstArc(demand, net, mapping, i) ==
  Cell(net, mapping[1], mapping[2]) >= demand.bandwidth[1]

\* a check that wants strictly more capacity than the requirement
EnoughBandwidthStrict(demand, net, mapping, i) ==
  \A j \in i..(Len(demand.path) - 1) :
    Cell(net, mapping[j], mapping[j + 1]) > demand.bandwidth[j]

RECURSIVE EnoughBandwidth(_, _, _, _)
\* the first loop of allocate_demand: FALSE at the first arc whose residual
\* capacity is below the requirement
EnoughBandwidth(demand, net, mapping, i) ==
  IF i > Len(demand.path) - 1 THEN TRUE
  ELSE IF Cell(net, mapping[i], mapping[i + 1]) < demand.bandwidth[i] THEN FALSE
  ELSE EnoughBandwidth(demand, net, mapping, i + 1)

\* a decrement written as an increment
ConsumeAdds(net, u, v, amount) == [net EXCEPT ![u][v] = @ + amount]

\* substrate_network[src_node, dst_node] -= required_bandwidth
Consume(net, u, v, amount) == [net EXCEPT ![u][v] = @ - amount]

RECURSIVE AssignResources(_, _, _, _)
\* the second loop of allocate_demand, from position i on
AssignResources(demand, net, mapping, i) ==
  IF i > Len(demand.path) - 1 THEN net
  ELSE AssignResources(
         demand,
         Consume(net, mapping[i], mapping[i + 1], demand.bandwidth[i]),
         mapping, i + 1)

\* an allocation that is never saved
RecordNothing(allocs, id, mapping) == allocs

\* self.allocations[demand['id']] = mapping
Record(allocs, id, mapping) ==
  [k \in DOMAIN allocs \cup {id} |-> IF k = id THEN mapping ELSE allocs[k]]

\* allocate_demand(demand, mapping): the value returned and the state left
AllocateDemand(demand, mapping, net, allocs) ==
  IF EnoughBandwidth(demand, net, mapping, 1)
    THEN [ok |-> TRUE,
          net |-> AssignResources(demand, net, mapping, 1),
          allocations |-> Record(allocs, demand.id, mapping)]
    ELSE [ok |-> FALSE, net |-> net, allocations |-> allocs]

(***************************************************************************)
(* process_all_demands                                                     *)
(***************************************************************************)
\* the first loop of allocate_demand reads demand['bandwidth'][i] past the end
\* of the list before any arc made it return False
AllocateRaises(demand, net, mapping) ==
  \E i \in 1..(Len(demand.path) - 1) :
    /\ i > Len(demand.bandwidth)
    /\ \A j \in 1..(i - 1) :
         net # None /\ Cell(net, mapping[j], mapping[j + 1]) >= demand.bandwidth[j]

\* the demands handed to a direct call of allocate_demand
AllocateInputs ==
  {d \in DemandInputs : \A i \in DOMAIN d.bandwidth : d.bandwidth[i] > 0}

\* the arrangements of k distinct labels out of 1..n
Arrangements(n, k) ==
  {m \in [1..k -> 1..n] : \A i, j \in 1..k : m[i] = m[j] => i = j}

\* the arrangements for every node count and path length of the inputs,
\* computed once
ArrangementTable ==
  [n \in {NumNodes(m) : m \in Substrates},
   k \in {Len(d.path) : d \in DemandInputs} |-> Arrangements(n, k)]

\* the mappings handed to a direct call of allocate_demand for demand d: the
\* placements of its virtual nodes on distinct nodes of the substrate
MappingInputs(d) ==
  IF substrate_network = None THEN {d.path}
  ELSE ArrangementTable[NumNodes(substrate_network), Len(d.path)]

\* allocate_demand(demand, mapping) called by the user of the class
AllocateCall(d, mapping) ==
  /\ pc = "idle"
  /\ d.id \notin DOMAIN allocations
  /\ Cardinality(DOMAIN allocations) < MaxAllocated
  /\ IF AllocateRaises(d, substrate_network, mapping)
       THEN /\ err' = "IndexError"
            /\ ret' = None
            /\ UNCHANGED << substrate_network, allocations >>
     ELSE IF substrate_network = None
       THEN /\ err' = "TypeError"
            /\ ret' = None
            /\ UNCHANGED << substrate_network, allocations >>
     ELSE LET done == AllocateDemand(d, mapping, substrate_network, allocations)
          IN  /\ err' = ""
              /\ ret' = done.ok
              /\ substrate_network' = done.net
              /\ allocations' = done.allocations
  /\ last' = "allocate"
  /\ snap' = NoSnap
  /\ UNCHANGED << original_substrate, demands, accepted_demands,
                  rejected_demands, pc, idx, added, clean >>

\* a ratio that is 1.0 when nothing has been processed
RatioOneWhenEmpty(accepted, rejected) ==
  LET total_demands == Len(accepted) + Len(rejected)
  IN  IF total_demands = 0 THEN << 1, 1 >>
      ELSE << Len(accepted), total_demands >>

\* get_acceptance_ratio(): the float as numerator and denominator
GetAcceptanceRatio(accepted, rejected) ==
  LET total_demands == Len(accepted) + Len(rejected)
  IN  IF total_demands = 0 THEN << 0, 1 >>
      ELSE << Len(accepted), total_demands >>

RECURSIVE InsertBeforeEqual(_, _)
\* an insertion that puts x before the elements whose key equals its own
InsertBeforeEqual(x, s) ==
  IF s = << >> THEN << x >>
  ELSE IF TotalBandwidth(Head(s)) < TotalBandwidth(x)
         THEN << Head(s) >> \o InsertBeforeEqual(x, Tail(s))
  ELSE << x >> \o s

RECURSIVE InsertByKey(_, _)
\* x put into the sorted list s after every element whose key is <= its own
InsertByKey(x, s) ==
  IF s = << >> THEN << x >>
  ELSE IF TotalBandwidth(Head(s)) <= TotalBandwidth(x)
         THEN << Head(s) >> \o InsertByKey(x, Tail(s))
  ELSE << x >> \o s

\* a pass that forgets to sort
SortNothing(s) == s

RECURSIVE SortDemands(_)
\* list.sort(key=lambda d: sum(d['bandwidth'])): ascending and stable
SortDemands(s) ==
  IF s = << >> THEN << >>
  ELSE InsertByKey(s[Len(s)], SortDemands(SubSeq(s, 1, Len(s) - 1)))

\* process_all_demands() up to the for loop: the in-place sort; with no
\* demand the loop body never runs and the ratio is returned at once
ProcessStart ==
  /\ pc = "idle"
  /\ Len(accepted_demands) + Len(rejected_demands) + Len(demands) <= MaxRecorded
  /\ demands' = SortDemands(demands)
  /\ clean' = /\ accepted_demands = << >>
              /\ rejected_demands = << >>
              /\ allocations = EmptyAllocations
  /\ err' = ""
  /\ last' = "process"
  /\ snap' = SnapAtStart
  /\ IF demands = << >>
       THEN /\ ret' = GetAcceptanceRatio(accepted_demands, rejected_demands)
            /\ UNCHANGED << pc, idx >>
       ELSE /\ pc' = "loop"
            /\ idx' = 1
            /\ ret' = None
  /\ UNCHANGED << substrate_network, original_substrate, accepted_demands,
                  rejected_demands, allocations, added >>

\* a selection that takes the last valid mapping
SelectLastAllocation(possible_allocations) ==
  possible_allocations[Len(possible_allocations)]

\* allocation = possible_allocations[0]
SelectAllocation(possible_allocations) == possible_allocations[1]

\* a rejection branch that reports the demand as accepted
AcceptOutcome(net, allocs) ==
  [raised |-> "", accepted |-> TRUE, net |-> net, allocations |-> allocs]

\* the else branch of `if possible_allocations:`: the demand is rejected, the
\* network and the allocations are not touched
RejectOutcome(net, allocs) ==
  [raised |-> "", accepted |-> FALSE, net |-> net, allocations |-> allocs]

\* the outcome of one iteration of the for loop for `demand`
Iteration(demand, net, allocs) ==
  IF net = None THEN [raised |-> "AttributeError"]
  ELSE IF FindRaises(demand, net) THEN [raised |-> "IndexError"]
  ELSE
    LET possible_allocations == FindAllPossibleAllocations(demand, net)
    IN  IF possible_allocations # << >>
          THEN LET allocation == SelectAllocation(possible_allocations)
                   done == AllocateDemand(demand, allocation, net, allocs)
               IN  [raised |-> "", accepted |-> done.ok,
                    net |-> done.net, allocations |-> done.allocations]
          ELSE RejectOutcome(net, allocs)

\* one iteration of the for loop of process_all_demands; after the last one
\* the method returns get_acceptance_ratio(); an exception ends the call
ProcessStep ==
  /\ pc = "loop"
  /\ LET demand == demands[idx]
         out == Iteration(demand, substrate_network, allocations)
     IN  IF out.raised # ""
           THEN /\ err' = out.raised
                /\ pc' = "idle"
                /\ idx' = 0
                /\ UNCHANGED << substrate_network, allocations,
                                accepted_demands, rejected_demands, ret >>
           ELSE /\ substrate_network' = out.net
                /\ allocations' = out.allocations
                /\ accepted_demands' =
                     IF out.accepted THEN Append(accepted_demands, demand)
                     ELSE accepted_demands
                /\ rejected_demands' =
                     IF out.accepted THEN rejected_demands
                     ELSE Append(rejected_demands, demand)
                /\ IF idx < Len(demands)
                     THEN /\ idx' = idx + 1
                          /\ UNCHANGED << pc, ret >>
                     ELSE /\ idx' = 0
                          /\ pc' = "idle"
                          /\ ret' = GetAcceptanceRatio(accepted_demands',
                                                       rejected_demands')
                /\ UNCHANGED err
  /\ UNCHANGED << original_substrate, demands, last, added, clean, snap >>

Next ==
  \/ \E m \in Substrates : SetSubstrateNetwork(m)
  \/ \E d \in DemandInputs : AddDemand(d)
  \/ Reset
  \/ ProcessStart
  \/ ProcessStep

Spec == Init /\ [][Next]_vars

\* the life cycle the class is written for: one matrix is installed, then
\* demands are added, processed and reset
NextSetOnce ==
  \/ \E m \in Substrates : SetSubstrateNetworkOnce(m)
  \/ \E d \in DemandInputs : AddDemand(d)
  \/ Reset
  \/ ProcessStart
  \/ ProcessStep

SpecSetOnce == Init /\ [][NextSetOnce]_vars

\* the class used as an allocator only: a matrix is installed and
\* allocate_demand is called directly
NextAllocate ==
  \/ \E m \in Substrates : SetSubstrateNetworkOnce(m)
  \/ \E d \in AllocateInputs : \E mapping \in MappingInputs(d) :
       AllocateCall(d, mapping)

SpecAllocate == Init /\ [][NextAllocate]_vars

(***************************************************************************)
(* Vocabulary of the properties.                                           *)
(***************************************************************************)
SeqToSet(s) == {s[i] : i \in DOMAIN s}

\* a demand as the data model describes it
WellFormedDemand(d) ==
  /\ Len(d.path) >= 2
  /\ Len(d.bandwidth) = Len(d.path) - 1
  /\ \A i \in DOMAIN d.bandwidth : d.bandwidth[i] > 0

\* a square matrix without negative entries
WellFormedTopology(m) ==
  /\ m # None
  /\ \A u \in DOMAIN m :
       /\ Len(m[u]) = Len(m)
       /\ \A v \in DOMAIN m[u] : m[u][v] >= 0

UniqueIds(s) == \A i, j \in DOMAIN s : s[i].id = s[j].id => i = j

\* number of occurrences of x in the sequence s
Count(s, x) == Cardinality({i \in DOMAIN s : s[i] = x})

(***************************************************************************)
(* C1.  With a square non-negative capacity matrix and well-formed         *)
(* demands, every residual capacity stays between 0 and the original       *)
(* capacity of its arc, in every state and at every step of a pass.        *)
(***************************************************************************)
C1_ResidualWithinOriginal ==
  ( /\ WellFormedTopology(original_substrate)
    /\ \A d \in SeqToSet(demands) : WellFormedDemand(d) )
  => \A u \in DOMAIN original_substrate :
       \A v \in DOMAIN original_substrate[u] :
         /\ 0 <= Cell(substrate_network, u, v)
         /\ Cell(substrate_network, u, v) <= Cell(original_substrate, u, v)

\* an arc has been used up completely by accepted well-formed demands
C1_Witness ==
  /\ WellFormedTopology(original_substrate)
  /\ \A d \in SeqToSet(demands) : WellFormedDemand(d)
  /\ accepted_demands # << >>
  /\ \E u \in DOMAIN original_substrate :
       \E v \in DOMAIN original_substrate[u] :
         /\ Cell(original_substrate, u, v) > 0
         /\ Cell(substrate_network, u, v) = 0

(***************************************************************************)
(* C2.  After a complete pass that started with nothing recorded, every    *)
(* demand of the list is in exactly one of accepted_demands and            *)
(* rejected_demands, and allocations has an entry for its id exactly when  *)
(* it is in accepted_demands.                                              *)
(***************************************************************************)
Partitioned ==
  \A d \in SeqToSet(demands) :
    /\ (d \in SeqToSet(accepted_demands)) # (d \in SeqToSet(rejected_demands))
    /\ (d.id \in DOMAIN allocations) <=> (d \in SeqToSet(accepted_demands))

\* C2 as stated, for any list of well-formed demands on a well-formed
\* topology
C2_Original ==
  ( /\ PassComplete /\ clean
    /\ WellFormedTopology(original_substrate)
    /\ \A d \in SeqToSet(demands) : WellFormedDemand(d) )
  => Partitioned

\* C2 for demand lists whose ids are pairwise distinct: after a complete pass
\* that started with nothing recorded, every demand is in exactly one of the
\* two lists and has an allocations entry exactly when it was accepted
C2_PartitionUniqueIds ==
  (PassComplete /\ clean /\ UniqueIds(demands)) => Partitioned

\* a pass over two demands with distinct ids accepted one and rejected one
C2_Witness ==
  /\ PassComplete /\ clean /\ UniqueIds(demands)
  /\ WellFormedTopology(original_substrate)
  /\ \A d \in SeqToSet(demands) : WellFormedDemand(d)
  /\ Len(demands) = 2
  /\ Len(accepted_demands) = 1
  /\ Len(rejected_demands) = 1

SameAsSnap ==
  /\ allocations = snap.allocations
  /\ RatioEq(ret, snap.ret)

C5_ResetRestores ==
  (last = "reset" /\ original_substrate # None)
  => /\ substrate_network = original_substrate
     /\ accepted_demands = << >>
     /\ rejected_demands = << >>
     /\ allocations = EmptyAllocations

\* reset() was called after a pass that had committed an allocation
C5_Witness ==
  /\ last = "reset"
  /\ original_substrate # None
  /\ snap.taken
  /\ snap.allocations # EmptyAllocations
  /\ substrate_network = original_substrate

(***************************************************************************)
(* C6.  A pass gives the demands their terminal state in ascending order   *)
(* of total requested bandwidth, demands with equal totals in the order in *)
(* which they were added: every step that records a demand records the one *)
(* at the loop position, the list is sorted by total with ties in          *)
(* insertion order, and the loop position runs 1, 2, ... over it.          *)
(***************************************************************************)
WithTotal(s, t) ==
  LET Test(d) == TotalBandwidth(d) = t IN SelectSeq(s, Test)

SortedStable(s, inserted) ==
  /\ \A i, j \in DOMAIN s :
       i < j => TotalBandwidth(s[i]) <= TotalBandwidth(s[j])
  /\ \A d \in SeqToSet(inserted) :
       WithTotal(s, TotalBandwidth(d)) = WithTotal(inserted, TotalBandwidth(d))

\* this step appends one demand to accepted_demands or rejected_demands
RecordsOne ==
  Len(accepted_demands') + Len(rejected_demands')
    = Len(accepted_demands) + Len(rejected_demands) + 1

NewlyRecorded ==
  IF Len(accepted_demands') > Len(accepted_demands)
    THEN accepted_demands'[Len(accepted_demands')]
    ELSE rejected_demands'[Len(rejected_demands')]

C6_ProcessingOrder ==
  [][ /\ (pc = "idle" /\ pc' = "loop") => idx' = 1
      /\ RecordsOne =>
           /\ pc = "loop"
           /\ NewlyRecorded = demands[idx]
           /\ SortedStable(demands, added)
           /\ \/ pc' = "loop" /\ idx' = idx + 1
              \/ pc' = "idle" /\ idx = Len(demands) ]_vars

\* the second of two different demands with equal totals is about to be
\* processed
C6_Witness ==
  /\ pc = "loop"
  /\ idx = 2
  /\ Len(accepted_demands) + Len(rejected_demands) = 1
  /\ demands[1] # demands[2]
  /\ TotalBandwidth(demands[1]) = TotalBandwidth(demands[2])

(***************************************************************************)
(* C7.  For a demand whose bandwidth list covers its path,                 *)
(* find_all_possible_allocations returns exactly the sequences of          *)
(* len(path) pairwise distinct labels of 1..N whose consecutive arcs have  *)
(* residual capacity >= the requirement, in lexicographic order, each once.*)
(* It is evaluated for every demand of the list on every residual state a  *)
(* pass goes through, the one it starts from and the one it ends in        *)
(* included.                                                               *)
(***************************************************************************)
Feasible(d, net, m) ==
  \A i \in 1..(Len(d.path) - 1) : net[m[i]][m[i + 1]] >= d.bandwidth[i]

FeasibleSet(d, net) ==
  {m \in ArrangementTable[NumNodes(net), Len(d.path)] : Feasible(d, net, m)}

\* a precedes b in lexicographic order (a and b of equal length)
LexLess(a, b) ==
  \E i \in DOMAIN a : a[i] < b[i] /\ \A j \in 1..(i - 1) : a[j] = b[j]

\* the bandwidth list has an entry for every arc of the path
CoversPath(d) == Len(d.bandwidth) >= Len(d.path) - 1

C7_EnumerationExact ==
  (substrate_network # None /\ (pc = "loop" \/ PassComplete)) =>
    \A d \in SeqToSet(demands) :
      CoversPath(d) =>
        LET found == FindAllPossibleAllocations(d, substrate_network)
        IN  /\ SeqToSet(found) = FeasibleSet(d, substrate_network)
            /\ \A i \in 1..(Len(found) - 1) : LexLess(found[i], found[i + 1])

\* allocations already committed have removed some, not all, of the mappings
\* a demand had on the original capacities
C7_Witness ==
  /\ substrate_network # None
  /\ pc = "loop"
  /\ WellFormedTopology(original_substrate)
  /\ \E d \in SeqToSet(demands) :
       /\ WellFormedDemand(d)
       /\ Len(FindAllPossibleAllocations(d, substrate_network)) >= 2
       /\ Len(FindAllPossibleAllocations(d, substrate_network))
            < Len(FindAllPossibleAllocations(d, original_substrate))

(***************************************************************************)
(* C8.  At its turn a demand is accepted exactly when a feasible mapping   *)
(* exists on the residual capacities of that moment, the mapping recorded  *)
(* for it is then the lexicographically smallest feasible one, and with no *)
(* feasible mapping it is rejected.                                        *)
(***************************************************************************)
LexMin(S) == CHOOSE m \in S : \A o \in S \ {m} : LexLess(m, o)

C8_AcceptIffFeasible ==
  [][ (RecordsOne /\ pc = "loop" /\ CoversPath(demands[idx])) =>
        LET d == demands[idx]
            F == FeasibleSet(d, substrate_network)
        IN  IF F # {}
              THEN /\ accepted_demands' = Append(accepted_demands, d)
                   /\ rejected_demands' = rejected_demands
                   /\ d.id \in DOMAIN allocations'
                   /\ allocations'[d.id] = LexMin(F)
              ELSE /\ rejected_demands' = Append(rejected_demands, d)
                   /\ accepted_demands' = accepted_demands
                   /\ allocations' = allocations ]_vars

\* a pass accepted a demand on a mapping that is not the first arrangement
\* and rejected another demand
C8_Witness ==
  /\ PassComplete
  /\ WellFormedTopology(original_substrate)
  /\ rejected_demands # << >>
  /\ \E d \in SeqToSet(accepted_demands) :
       /\ WellFormedDemand(d)
       /\ d.id \in DOMAIN allocations
       /\ allocations[d.id] # [i \in 1..Len(d.path) |-> i]

(***************************************************************************)
(* C9.  The run of main(): on its 5-node substrate, with demands A         *)
(* (bandwidth 8, 8, 5) and B (bandwidth 4, 6, 2) added in that order, the  *)
(* pass processes B first, accepts B on [1,2,3,5] leaving 1->2: 8,         *)
(* 2->3: 4, 3->5: 6, rejects A and returns the ratio 0.5.                  *)
(***************************************************************************)
MainRun ==
  /\ PassComplete /\ clean
  /\ original_substrate = MainSubstrate
  /\ added = << DemandA, DemandB >>

C9_MainScenario ==
  MainRun =>
    /\ demands = << DemandB, DemandA >>
    /\ accepted_demands = << DemandB >>
    /\ rejected_demands = << DemandA >>
    /\ DOMAIN allocations = {DemandB.id}
    /\ allocations[DemandB.id] = << 1, 2, 3, 5 >>
    /\ substrate_network =
         [MainSubstrate EXCEPT ![1][2] = 8, ![2][3] = 4, ![3][5] = 6]
    /\ RatioEq(ret, << 1, 2 >>)

\* main() has run to its end
C9_Witness == MainRun /\ Len(accepted_demands) + Len(rejected_demands) = 2

(***************************************************************************)
(* C10.  A demand is recorded in accepted_demands or rejected_demands at   *)
(* most once, whatever the sequence of add_demand and process_all_demands  *)
(* calls: no demand is recorded more often than it was added.              *)
(***************************************************************************)
C10_RecordedOnce ==
  ( /\ WellFormedTopology(original_substrate)
    /\ UniqueIds(added)
    /\ \A d \in SeqToSet(added) : WellFormedDemand(d) )
  => \A d \in SeqToSet(added) :
       Count(accepted_demands, d) + Count(rejected_demands, d) <= 1

(***************************************************************************)
(* C11.  set_substrate_network called with a matrix that is not square or  *)
(* that has a negative entry fails with InvalidTopology and stores         *)
(* nothing: the residual and the original capacities stay as they were.    *)
(***************************************************************************)
C11_InvalidTopologyRejected ==
  [][ \A m \in Substrates :
        (SetSubstrateNetwork(m) /\ ~WellFormedTopology(m)) =>
          /\ err' = "InvalidTopology"
          /\ substrate_network' = substrate_network
          /\ original_substrate' = original_substrate ]_vars

(***************************************************************************)
(* C12.  add_demand called with a path shorter than 2, a bandwidth list    *)
(* whose length is not len(path) - 1, or a requirement that is not         *)
(* positive fails with InvalidDemand and does not append the demand.       *)
(***************************************************************************)
C12_InvalidDemandRejected ==
  [][ \A d \in DemandInputs :
        (AddDemand(d) /\ ~WellFormedDemand(d)) =>
          /\ err' = "InvalidDemand"
          /\ demands' = demands ]_vars

(***************************************************************************)
(* C13.  A demand whose path is longer than the number of nodes has no     *)
(* feasible mapping whatever the capacities are:                           *)
(* find_all_possible_allocations returns the empty list (it does not       *)
(* raise), and the iteration of process_all_demands that handles the       *)
(* demand appends it to rejected_demands and changes neither the residual  *)
(* capacities nor the allocations.                                         *)
(***************************************************************************)
PathTooLong(d, net) == Len(d.path) > NumNodes(net)

C13_PathLongerThanNetwork ==
  [][ (pc = "loop" /\ substrate_network # None
         /\ PathTooLong(demands[idx], substrate_network)) =>
        /\ \A m \in Substrates :
             PathTooLong(demands[idx], m) =>
               /\ ~FindRaises(demands[idx], m)
               /\ FindAllPossibleAllocations(demands[idx], m) = << >>
        /\ rejected_demands' = Append(rejected_demands, demands[idx])
        /\ accepted_demands' = accepted_demands
        /\ substrate_network' = substrate_network
        /\ allocations' = allocations
        /\ err' = "" ]_vars

\* a pass that accepted one demand, so that the residual is no longer the
\* original, and then rejected a demand with more hops than there are nodes
C13_Witness ==
  /\ PassComplete
  /\ accepted_demands # << >>
  /\ substrate_network # original_substrate
  /\ \E i \in DOMAIN rejected_demands :
       /\ PathTooLong(rejected_demands[i], original_substrate)
       /\ rejected_demands[i] = demands[Len(demands)]

(***************************************************************************)
(* C14.  In every state get_acceptance_ratio() is                          *)
(* |accepted| / (|accepted| + |rejected|), a number of [0, 1], and 0.0     *)
(* when nothing has been processed; it is what process_all_demands         *)
(* returns, and a pass over an empty demand list returns 0.0 and leaves    *)
(* accepted_demands and rejected_demands empty.                            *)
(***************************************************************************)
C14_AcceptanceRatio ==
  LET r == GetAcceptanceRatio(accepted_demands, rejected_demands)
      a == Len(accepted_demands)
      t == Len(accepted_demands) + Len(rejected_demands)
  IN  /\ r[2] > 0
      /\ 0 <= r[1] /\ r[1] <= r[2]
      /\ t > 0 => r[1] * t = a * r[2]
      /\ t = 0 => r[1] = 0
      /\ PassComplete => ret # None /\ RatioEq(ret, r)
      /\ (PassComplete /\ demands = << >>) =>
           /\ ret # None /\ ret[1] = 0
           /\ accepted_demands = << >>
           /\ rejected_demands = << >>

\* a pass over an empty list that returned 0.0, after a reset that followed a
\* pass whose ratio was strictly between 0 and 1
C14_Witness ==
  /\ PassComplete
  /\ demands = << >>
  /\ ret = << 0, 1 >>
  /\ snap.taken
  /\ 0 < snap.ret[1] /\ snap.ret[1] < snap.ret[2]

(***************************************************************************)
(* C15.  No failure aborts the batch: on a well-formed substrate, a call   *)
(* of process_all_demands that has ended has ended normally, and every     *)
(* demand of the list add_demand built is in accepted_demands or in        *)
(* rejected_demands, also when one of the demands is malformed.            *)
(***************************************************************************)
C15_BatchCompletes ==
  (last = "process" /\ pc = "idle" /\ WellFormedTopology(original_substrate)) =>
    /\ err = ""
    /\ \A i \in DOMAIN demands :
         \/ demands[i] \in SeqToSet(accepted_demands)
         \/ demands[i] \in SeqToSet(rejected_demands)

(***************************************************************************)
(* C16.  In every state the allocator can be called in,                    *)
(* allocate_demand(demand, mapping) is all-or-nothing for a mapping as     *)
(* long as the demand's path: when some arc                                *)
(* (mapping[i], mapping[i+1]) has less residual capacity than bandwidth[i] *)
(* it returns False and changes neither the residual capacities nor the    *)
(* allocations; otherwise it returns True, the residual of each arc of the *)
(* mapping has decreased by exactly bandwidth[i], every other entry is     *)
(* unchanged, and allocations[demand id] is the mapping.                   *)
(***************************************************************************)
\* the positions of the path whose arc under mapping m is (u, v)
ArcPositions(d, m, u, v) ==
  {i \in 1..(Len(d.path) - 1) : m[i] = u /\ m[i + 1] = v}

SomeArcShort(d, net, m) ==
  \E i \in 1..(Len(d.path) - 1) : net[m[i]][m[i + 1]] < d.bandwidth[i]

\* net2 is net with the arcs of m decreased by the requirements of d
DecreasedOnArcs(d, m, net, net2) ==
  /\ DOMAIN net2 = DOMAIN net
  /\ \A u \in DOMAIN net :
       /\ DOMAIN net2[u] = DOMAIN net[u]
       /\ \A v \in DOMAIN net[u] :
            IF ArcPositions(d, m, u, v) = {}
              THEN net2[u][v] = net[u][v]
              ELSE \A i \in ArcPositions(d, m, u, v) :
                     net2[u][v] = net[u][v] - d.bandwidth[i]

C16_AllOrNothing ==
  substrate_network # None =>
    \A d \in AllocateInputs : \A m \in MappingInputs(d) :
      CoversPath(d) =>
        LET done == AllocateDemand(d, m, substrate_network, allocations)
        IN  IF SomeArcShort(d, substrate_network, m)
              THEN /\ done.ok = FALSE
                   /\ done.net = substrate_network
                   /\ done.allocations = allocations
              ELSE /\ done.ok = TRUE
                   /\ DecreasedOnArcs(d, m, substrate_network, done.net)
                   /\ DOMAIN done.allocations = DOMAIN allocations \cup {d.id}
                   /\ done.allocations[d.id] = m
                   /\ \A k \in DOMAIN allocations \ {d.id} :
                        done.allocations[k] = allocations[k]

\* a call that returned False after earlier calls had committed allocations
\* and consumed capacity
C16_Witness ==
  /\ last = "allocate"
  /\ err = ""
  /\ ret = FALSE
  /\ allocations # EmptyAllocations
  /\ substrate_network # original_substrate
  /\ WellFormedTopology(original_substrate)

(***************************************************************************)
(* C17.  In process_all_demands the allocator's re-check never fails:      *)
(* whenever find_all_possible_allocations returns a non-empty list,        *)
(* allocate_demand on its first element returns True and the demand is     *)
(* appended to accepted_demands, never to rejected_demands.                *)
(***************************************************************************)
C17_RecheckNeverFails ==
  [][ (/\ pc = "loop"
       /\ substrate_network # None
       /\ ~FindRaises(demands[idx], substrate_network)
       /\ FindAllPossibleAllocations(demands[idx], substrate_network) # << >>)
      =>
        /\ AllocateDemand(
             demands[idx],
             FindAllPossibleAllocations(demands[idx], substrate_network)[1],
             substrate_network, allocations).ok
        /\ accepted_demands' = Append(accepted_demands, demands[idx])
        /\ rejected_demands' = rejected_demands ]_vars

\* a demand was accepted on a mapping one of whose arcs had exactly the
\* capacity required, in a pass that also rejected a demand
C17_Witness ==
  /\ PassComplete
  /\ clean
  /\ rejected_demands # << >>
  /\ \E i \in DOMAIN accepted_demands :
       LET d == accepted_demands[i]
           m == allocations[d.id]
       IN  /\ WellFormedDemand(d)
           /\ \E j \in 1..(Len(d.path) - 1) :
                /\ substrate_network[m[j]][m[j + 1]] = 0
                /\ original_substrate[m[j]][m[j + 1]] = d.bandwidth[j]

(***************************************************************************)
(* C18.  Capacity consumed is never returned during processing: once the   *)
(* substrate is installed and while the demands are well formed, no step   *)
(* other than reset() increases a residual entry, and the iteration of     *)
(* process_all_demands that rejects a demand leaves every residual entry   *)
(* and the allocations exactly as they were.                               *)
(***************************************************************************)
AllWellFormed(s) == \A i \in DOMAIN s : WellFormedDemand(s[i])

NonIncreasing(net, net2) ==
  /\ DOMAIN net2 = DOMAIN net
  /\ \A u \in DOMAIN net :
       /\ DOMAIN net2[u] = DOMAIN net[u]
       /\ \A v \in DOMAIN net[u] : net2[u][v] <= net[u][v]

C18_ConsumedNeverReturned ==
  [][ (substrate_network # None /\ AllWellFormed(demands)) =>
        /\ last' # "reset" =>
             NonIncreasing(substrate_network, substrate_network')
        /\ (pc = "loop" /\ rejected_demands' # rejected_demands) =>
             /\ substrate_network' = substrate_network
             /\ allocations' = allocations ]_vars

\* after a reset that gave the capacities back, a second pass accepted a
\* demand, which consumed capacity, and then rejected a well-formed one
C18_Witness ==
  /\ PassComplete
  /\ snap.taken
  /\ snap.allocations # EmptyAllocations
  /\ AllWellFormed(demands)
  /\ accepted_demands # << >>
  /\ rejected_demands # << >>
  /\ rejected_demands[Len(rejected_demands)] = demands[Len(demands)]
  /\ substrate_network # original_substrate
  /\ WellFormedTopology(original_substrate)

(***************************************************************************)
(* C19.  Capacity conservation: in every state reached from                *)
(* set_substrate_network by add_demand, process_all_demands and reset,     *)
(* with well-formed demands of unique ids, what is missing from an arc,    *)
(* original[u][v] - residual[u][v], is the sum of bandwidth[i] over the    *)
(* accepted demands d and the positions i at which the mapping             *)
(* allocations[d.id] uses the arc (u, v); an arc no accepted mapping uses  *)
(* has its original capacity.                                              *)
(***************************************************************************)
RECURSIVE UsedBy(_, _, _, _, _)
\* what demand d placed on mapping m takes from arc (u, v), from position i on
UsedBy(d, m, u, v, i) ==
  IF i > Len(d.path) - 1 THEN 0
  ELSE (IF m[i] = u /\ m[i + 1] = v THEN d.bandwidth[i] ELSE 0)
         + UsedBy(d, m, u, v, i + 1)

RECURSIVE TotalUsed(_, _, _, _)
\* what the demands of the list `accepted` take from arc (u, v)
TotalUsed(accepted, allocs, u, v) ==
  IF accepted = << >> THEN 0
  ELSE UsedBy(Head(accepted), allocs[Head(accepted).id], u, v, 1)
         + TotalUsed(Tail(accepted), allocs, u, v)

Conserved ==
  \A u \in DOMAIN original_substrate :
    \A v \in DOMAIN original_substrate[u] :
      original_substrate[u][v] - substrate_network[u][v]
        = TotalUsed(accepted_demands, allocations, u, v)

C19_Conservation ==
  (substrate_network # None /\ AllWellFormed(demands) /\ UniqueIds(demands))
    => Conserved

(***************************************************************************)
(* C20.  reset() can be called in any state, also on a processor on which  *)
(* set_substrate_network was never called: it completes without error,     *)
(* leaves demands, accepted_demands, rejected_demands and allocations      *)
(* empty, and leaves the substrate unset when none was installed.          *)
(***************************************************************************)
C20_ResetAlwaysCompletes ==
  last = "reset" =>
    /\ err = ""
    /\ demands = << >>
    /\ accepted_demands = << >>
    /\ rejected_demands = << >>
    /\ allocations = EmptyAllocations
    /\ original_substrate = None => substrate_network = None
====
